---- MODULE Spec2Model ----
(***************************************************************************)
(* Model of scripts/mit_rss_to_milan_ics.py: the generator of an iCalendar *)
(* feed of transport strikes that may affect Milan.                        *)
(*                                                                         *)
(* A Python str is a sequence of one-character strings, so that lower(),   *)
(* the `in` substring test and the regular expressions of DATE_PATTERNS    *)
(* are computed character by character.  A datetime.date is the tuple      *)
(* <<year, month, day>>.                                                   *)
(***************************************************************************)
EXTENDS Integers, Sequences, FiniteSets, TLC

VARIABLES
    \* ---- configuration read by main() (also the arguments of should_include)
    geo_kw, nat_mode_kw, include_national, out_path,
    \* ---- the run of main()
    pc, raw, feed, parses, idx, cal, kept, out_file, error,
    \* ---- a call of should_include / detect_mode / detect_scope on one blob
    cpc, blob, included, mode, scope,
    \* ---- a call of extract_dates, then choose_event_span, on one text
    dpc, text, dates, span,
    \* ---- two calls of make_uid
    upc, link1, title1, link2, title2, uid1, uid2

cfgVars  == <<geo_kw, nat_mode_kw, include_national, out_path>>
mainVars == <<pc, raw, feed, parses, idx, cal, kept, out_file, error>>
clsVars  == <<cpc, blob, included, mode, scope>>
dateVars == <<dpc, text, dates, span>>
uidVars  == <<upc, link1, title1, link2, title2, uid1, uid2>>
vars     == <<cfgVars, mainVars, clsVars, dateVars, uidVars>>

----------------------------------------------------------------------------
(* Bounds of the model.                                                    *)

\* fragments concatenated into a blob given to the classifier
MaxBlobFrags == 2
\* fragments concatenated into a text given to extract_dates
MaxTextFrags == 3
\* length of the links and titles given to make_uid
MaxUidLen == 2
\* entries of the fetched feed document
MaxEntries == 2

----------------------------------------------------------------------------
(* Python values.                                                          *)

\* None where a str is expected: a tuple no text equals
None == <<"<None>">>

\* text or ""
OrEmpty(s) == IF s = None THEN <<>> ELSE s

UpperLetters ==
    <<"A", "B", "C", "D", "E", "F", "G", "H", "I", "J", "K", "L", "M",
      "N", "O", "P", "Q", "R", "S", "T", "U", "V", "W", "X", "Y", "Z">>

LowerLetters ==
    <<"a", "b", "c", "d", "e", "f", "g", "h", "i", "j", "k", "l", "m",
      "n", "o", "p", "q", "r", "s", "t", "u", "v", "w", "x", "y", "z">>

LowerOf ==
    [c \in {UpperLetters[i] : i \in 1..26} |->
        LowerLetters[CHOOSE i \in 1..26 : UpperLetters[i] = c]]

\* str.lower() of one character
LowerChar(c) == IF c \in DOMAIN LowerOf THEN LowerOf[c] ELSE c

\* str.lower()
lower(s) == [i \in 1..Len(s) |-> LowerChar(s[i])]

\* sub in s
Contains(sub, s) ==
    \E i \in 0..(Len(s) - Len(sub)) : SubSeq(s, i + 1, i + Len(sub)) = sub

\* any(x in t for x in words)
AnyIn(words, t) == \E i \in 1..Len(words) : Contains(words[i], t)

RECURSIVE Concat(_)
Concat(ss) == IF ss = <<>> THEN <<>> ELSE Head(ss) \o Concat(Tail(ss))

\* F(v), with v evaluated once and F applied to its value
Bind(v, F(_)) == CHOOSE r \in {F(x) : x \in {v}} : TRUE

\* the sequences of at most n elements of S
SeqsUpTo(S, n) == UNION {[1..k -> S] : k \in 0..n}

----------------------------------------------------------------------------
(* Keyword lists.                                                          *)

DEFAULT_GEO_KEYWORDS ==
    << <<"M", "I", "L", "A", "N", "O">>, <<"M", "I", "L", "A", "N">>, <<"M", "I">>, <<"L", "O", "M", "B", "A", "R", "D", "I", "A">>, <<"L", "O", "M", "B", "A", "R", "D", "Y">>,
       <<"M", "O", "N", "Z", "A">>, <<"B", "R", "I", "A", "N", "Z", "A">>, <<"L", "I", "N", "A", "T", "E">>, <<"M", "A", "L", "P", "E", "N", "S", "A">>, <<"B", "E", "R", "G", "A", "M", "O">>,
       <<"O", "R", "I", "O", " ", "A", "L", " ", "S", "E", "R", "I", "O">>, <<"V", "A", "R", "E", "S", "E">>, <<"C", "O", "M", "O">>, <<"P", "A", "V", "I", "A">>, <<"C", "R", "E", "M", "O", "N", "A">>,
       <<"M", "A", "N", "T", "O", "V", "A">>, <<"L", "E", "C", "C", "O">>, <<"S", "O", "N", "D", "R", "I", "O">>, <<"B", "R", "E", "S", "C", "I", "A">> >>

DEFAULT_NATIONAL_MODE_KEYWORDS ==
    << <<"T", "R", "A", "S", "P", "O", "R", "T", "O", " ", "P", "U", "B", "B", "L", "I", "C", "O", " ", "L", "O", "C", "A", "L", "E">>, <<"T", "P", "L">>, <<"A", "U", "T", "O", "B", "U", "S">>, <<"B", "U", "S">>,
       <<"M", "E", "T", "R", "O">>, <<"M", "E", "T", "R", "O", "P", "O", "L", "I", "T", "A", "N", "A">>, <<"T", "R", "A", "M">>,
       <<"F", "E", "R", "R", "O", "V", "I">>, <<"T", "R", "E", "N", "I">>, <<"T", "R", "E", "N", "I", "T", "A", "L", "I", "A">>, <<"R", "F", "I">>, <<"I", "T", "A", "L", "O">>, <<"T", "R", "E", "N", "O", "R", "D">>,
       <<"A", "E", "R", "E", "O">>, <<"A", "E", "R", "O", "P", "O", "R", "T">>, <<"E", "N", "A", "V">>, <<"H", "A", "N", "D", "L", "I", "N", "G">>,
       <<"A", "U", "T", "O", "S", "T", "R", "A", "D">>, <<"T", "A", "X", "I">> >>

\* the four literal lists of detect_mode
LOCAL_TRANSIT_WORDS ==
    << <<"t", "r", "a", "s", "p", "o", "r", "t", "o", " ", "p", "u", "b", "b", "l", "i", "c", "o", " ", "l", "o", "c", "a", "l", "e">>, <<"t", "p", "l">>, <<"b", "u", "s">>, <<"a", "u", "t", "o", "b", "u", "s">>,
       <<"m", "e", "t", "r", "o">>, <<"m", "e", "t", "r", "o", "p", "o", "l", "i", "t", "a", "n", "a">>, <<"t", "r", "a", "m">> >>

RAIL_WORDS ==
    << <<"f", "e", "r", "r", "o", "v", "i">>, <<"t", "r", "e", "n", "i">>, <<"t", "r", "e", "n", "i", "t", "a", "l", "i", "a">>, <<"t", "r", "e", "n", "o", "r", "d">>, <<"r", "f", "i">>, <<"i", "t", "a", "l", "o">> >>

AIR_WORDS == << <<"a", "e", "r", "e", "o">>, <<"a", "e", "r", "o", "p", "o", "r", "t">>, <<"e", "n", "a", "v">>, <<"h", "a", "n", "d", "l", "i", "n", "g">> >>

ROAD_WORDS == << <<"a", "u", "t", "o", "s", "t", "r", "a", "d">>, <<"t", "a", "x", "i">> >>

\* the four literals of detect_scope, and of should_include
NAZIONALE == <<"n", "a", "z", "i", "o", "n", "a", "l", "e">>
REGIONALE == <<"r", "e", "g", "i", "o", "n", "a", "l", "e">>
PROVINC == <<"p", "r", "o", "v", "i", "n", "c">>
LOCALE == <<"l", "o", "c", "a", "l", "e">>

----------------------------------------------------------------------------
(* matches_any, detect_scope, detect_mode, should_include.                 *)

matches_any(t0, keywords) ==
    LET t == lower(OrEmpty(t0))
    IN  \E i \in 1..Len(keywords) : Contains(lower(keywords[i]), t)

\* the English half of the label; the code returns "National / <Chinese>" etc.
detect_scope(t0) ==
    LET t == lower(OrEmpty(t0))
    IN  IF Contains(NAZIONALE, t) THEN "National"
        ELSE IF Contains(REGIONALE, t) THEN "Regional"
        ELSE IF Contains(PROVINC, t) THEN "Province"
        ELSE IF Contains(LOCALE, t) THEN "Local"
        ELSE "Unspecified"

\* faulty variant: rail tested before local public transport
detect_mode_rail_first(t0) ==
    LET t == lower(OrEmpty(t0))
    IN  IF AnyIn(RAIL_WORDS, t) THEN "Rail strike"
        ELSE IF AnyIn(LOCAL_TRANSIT_WORDS, t) THEN "Local public transport strike"
        ELSE IF AnyIn(AIR_WORDS, t) THEN "Air transport strike"
        ELSE IF AnyIn(ROAD_WORDS, t) THEN "Road transport strike"
        ELSE "Transport strike"

\* faulty variant: a mode is reported only for a text that matches the configured
\* national-mode keywords
detect_mode_configured(t0) ==
    LET t == lower(OrEmpty(t0))
    IN  IF ~matches_any(t0, nat_mode_kw) THEN "Transport strike"
        ELSE IF AnyIn(LOCAL_TRANSIT_WORDS, t) THEN "Local public transport strike"
        ELSE IF AnyIn(RAIL_WORDS, t) THEN "Rail strike"
        ELSE IF AnyIn(AIR_WORDS, t) THEN "Air transport strike"
        ELSE IF AnyIn(ROAD_WORDS, t) THEN "Road transport strike"
        ELSE "Transport strike"

\* the English element of the returned pair; the Chinese one is fixed by it
detect_mode(t0) ==
    LET t == lower(OrEmpty(t0))
    IN  IF AnyIn(LOCAL_TRANSIT_WORDS, t) THEN "Local public transport strike"
        ELSE IF AnyIn(RAIL_WORDS, t) THEN "Rail strike"
        ELSE IF AnyIn(AIR_WORDS, t) THEN "Air transport strike"
        ELSE IF AnyIn(ROAD_WORDS, t) THEN "Road transport strike"
        ELSE "Transport strike"

\* faulty variant: "nazionale" looked for in the blob as written, not lower-cased
should_include_case_sensitive(entry_blob, geo, incl_nat, nat) ==
    IF matches_any(entry_blob, geo) THEN TRUE
    ELSE IF incl_nat
         THEN Contains(NAZIONALE, entry_blob) /\ matches_any(entry_blob, nat)
         ELSE FALSE

\* faulty variant: the national rule does not ask for "nazionale"
should_include_any_scope(entry_blob, geo, incl_nat, nat) ==
    IF matches_any(entry_blob, geo) THEN TRUE
    ELSE IF incl_nat THEN matches_any(entry_blob, nat)
         ELSE FALSE

\* entry_blob is a str (main always passes one)
should_include(entry_blob, geo, incl_nat, nat) ==
    IF matches_any(entry_blob, geo) THEN TRUE
    ELSE IF incl_nat
         THEN Contains(NAZIONALE, lower(entry_blob)) /\ matches_any(entry_blob, nat)
         ELSE FALSE

----------------------------------------------------------------------------
(* DATE_PATTERNS and extract_dates.                                        *)

Digits == <<"0", "1", "2", "3", "4", "5", "6", "7", "8", "9">>

DigitSet == {Digits[i] : i \in 1..10}

\* the character class [\/\-]
SepSet == {"/", "-"}

DigitVal == [c \in DigitSet |-> (CHOOSE i \in 1..10 : Digits[i] = c) - 1]

\* \d{n} at index i (1-based)
DigitsAt(t, i, n) ==
    /\ i >= 1
    /\ i + n - 1 <= Len(t)
    /\ \A k \in i..(i + n - 1) : t[k] \in DigitSet

\* [\/\-] at index i
SepAt(t, i) == i >= 1 /\ i <= Len(t) /\ t[i] \in SepSet

\* int() of a run of digits
RECURSIVE int(_)
int(s) ==
    IF s = <<>> THEN 0
    ELSE 10 * int(SubSeq(s, 1, Len(s) - 1)) + DigitVal[s[Len(s)]]

\* \d{1,2} is greedy: two digits are tried before one; the first group's
\* choice is backtracked last.  Each pair is <<first length, second length>>
\* of the two \d{1,2} groups in the order they stand in the pattern.
BacktrackOrder == << <<2, 2>>, <<2, 1>>, <<1, 2>>, <<1, 1>> >>

\* (?P<d>\d{1,2})[\/\-](?P<m>\d{1,2})[\/\-](?P<y>\d{4}) at index i with the
\* group lengths dl, ml
TryDMY(t, i, dl, ml) ==
    /\ DigitsAt(t, i, dl)
    /\ SepAt(t, i + dl)
    /\ DigitsAt(t, i + dl + 1, ml)
    /\ SepAt(t, i + dl + 1 + ml)
    /\ DigitsAt(t, i + dl + ml + 2, 4)

\* (?P<y>\d{4})[\/\-](?P<m>\d{1,2})[\/\-](?P<d>\d{1,2}) at index i with the
\* group lengths ml, dl
TryYMD(t, i, ml, dl) ==
    /\ DigitsAt(t, i, 4)
    /\ SepAt(t, i + 4)
    /\ DigitsAt(t, i + 5, ml)
    /\ SepAt(t, i + 5 + ml)
    /\ DigitsAt(t, i + 6 + ml, dl)

\* DATE_PATTERNS[0].match(t, i): <<>> or one match, with the index of its
\* last character and its three groups
MatchDMY(t, i) ==
    LET Groups(dl, ml) ==
            [last |-> i + dl + ml + 5,
             d |-> SubSeq(t, i, i + dl - 1),
             m |-> SubSeq(t, i + dl + 1, i + dl + ml),
             y |-> SubSeq(t, i + dl + ml + 2, i + dl + ml + 5)]
        First(ok) ==
            IF ok = {} THEN <<>>
            ELSE LET k == CHOOSE k \in ok : \A j \in ok : k <= j
                 IN  << Groups(BacktrackOrder[k][1], BacktrackOrder[k][2]) >>
    IN  Bind({k \in 1..4 : TryDMY(t, i, BacktrackOrder[k][1], BacktrackOrder[k][2])},
             First)

\* DATE_PATTERNS[1].match(t, i)
MatchYMD(t, i) ==
    LET Groups(ml, dl) ==
            [last |-> i + 5 + ml + dl,
             d |-> SubSeq(t, i + 6 + ml, i + 5 + ml + dl),
             m |-> SubSeq(t, i + 5, i + 4 + ml),
             y |-> SubSeq(t, i, i + 3)]
        First(ok) ==
            IF ok = {} THEN <<>>
            ELSE LET k == CHOOSE k \in ok : \A j \in ok : k <= j
                 IN  << Groups(BacktrackOrder[k][1], BacktrackOrder[k][2]) >>
    IN  Bind({k \in 1..4 : TryYMD(t, i, BacktrackOrder[k][1], BacktrackOrder[k][2])},
             First)

\* the patterns of DATE_PATTERNS, in order
PatternNames == <<"dmy", "ymd">>

MatchAt(pat, t, i) == IF pat = "dmy" THEN MatchDMY(t, i) ELSE MatchYMD(t, i)

\* the scan for the next match from index pos: the match at the leftmost
\* index where the pattern matches, or <<>>
search(pat, t, pos) ==
    LET Leftmost(starts) ==
            IF starts = {} THEN <<>>
            ELSE MatchAt(pat, t, CHOOSE i \in starts : \A j \in starts : i <= j)
    IN  Bind({i \in pos..Len(t) : MatchAt(pat, t, i) # <<>>}, Leftmost)

\* pat.finditer(t) from index pos: the leftmost match, then on from its end;
\* matches do not overlap
RECURSIVE finditer(_, _, _)
finditer(pat, t, pos) ==
    LET Rest(m) ==
            IF m = <<>> THEN <<>> ELSE m \o finditer(pat, t, m[1].last + 1)
    IN  Bind(search(pat, t, pos), Rest)

IsLeap(y) == y % 4 = 0 /\ (y % 100 # 0 \/ y % 400 = 0)

DaysInMonth(y, mo) ==
    IF mo = 2 THEN (IF IsLeap(y) THEN 29 ELSE 28)
    ELSE IF mo \in {4, 6, 9, 11} THEN 30 ELSE 31

\* date(y, mo, d) does not raise ValueError
DateOk(y, mo, d) ==
    /\ 1 <= y /\ y <= 9999
    /\ 1 <= mo /\ mo <= 12
    /\ 1 <= d /\ d <= DaysInMonth(y, mo)

\* a < b on dates
DateLT(a, b) ==
    \/ a[1] < b[1]
    \/ a[1] = b[1] /\ a[2] < b[2]
    \/ a[1] = b[1] /\ a[2] = b[2] /\ a[3] < b[3]

\* sorted(S) of a set of dates
RECURSIVE sorted(_)
sorted(S) ==
    LET Rest(mn) == <<mn>> \o sorted(S \ {mn})
    IN  IF S = {} THEN <<>>
        ELSE Bind(CHOOSE x \in S : \A y \in S : x = y \/ DateLT(x, y), Rest)

\* sorted({d for d in found})
SortedSet(f) == sorted({f[k] : k \in 1..Len(f)})

\* the dates one pattern appends to found, in the order of its matches
FoundBy(pat, t) ==
    LET Ok(ymd) == DateOk(ymd[1], ymd[2], ymd[3])
        Keep(ms) ==
            SelectSeq([k \in 1..Len(ms) |->
                          <<int(ms[k].y), int(ms[k].m), int(ms[k].d)>>], Ok)
    IN  Bind(finditer(pat, t, 1), Keep)

\* the list found when the loops of extract_dates end
Found(t0) ==
    LET Both(t) == FoundBy(PatternNames[1], t) \o FoundBy(PatternNames[2], t)
    IN  Bind(OrEmpty(t0), Both)

\* faulty variant: found returned as collected, neither deduplicated nor sorted
extract_dates_unsorted(t0) == Found(t0)

\* faulty variant: only the first pattern is applied
extract_dates_first_pattern(t0) ==
    LET First(t) == FoundBy(PatternNames[1], t)
    IN  Bind(Bind(OrEmpty(t0), First), SortedSet)

extract_dates(t0) == Bind(Found(t0), SortedSet)

----------------------------------------------------------------------------
(* choose_event_span and make_uid.                                         *)

\* d + timedelta(days=1); date.max + timedelta(days=1) raises OverflowError
PlusOneDay(d) ==
    IF d[3] < DaysInMonth(d[1], d[2]) THEN <<d[1], d[2], d[3] + 1>>
    ELSE IF d[2] < 12 THEN <<d[1], d[2] + 1, 1>>
    ELSE IF d[1] < 9999 THEN <<d[1] + 1, 1, 1>>
    ELSE <<"OverflowError">>

\* min(dates), max(dates) of a non-empty list
MinDate(ds) ==
    CHOOSE x \in {ds[k] : k \in 1..Len(ds)} :
        \A k \in 1..Len(ds) : x = ds[k] \/ DateLT(x, ds[k])

MaxDate(ds) ==
    CHOOSE x \in {ds[k] : k \in 1..Len(ds)} :
        \A k \in 1..Len(ds) : x = ds[k] \/ DateLT(ds[k], x)

\* the result is None, the pair (start, end), or the exception raised
choose_event_span(ds) ==
    LET Pair(end) ==
            IF Len(end) = 1 THEN [kind |-> "OverflowError"]
            ELSE [kind |-> "span", start |-> MinDate(ds), end |-> end]
    IN  IF ds = <<>> THEN [kind |-> "None"]
        ELSE Bind(PlusOneDay(MaxDate(ds)), Pair)

\* hashlib.sha1(b).hexdigest(), taken as collision-free: the digest stands
\* for the bytes hashed and for nothing else
sha1_hexdigest(bytes) == [sha1 |-> bytes]

\* f"{link}|{title}"
UidInput(link, title) == link \o <<"|">> \o title

\* f"mit-strike-{h}@milan"
make_uid(link, title) ==
    <<"mit-strike-", sha1_hexdigest(UidInput(link, title)), "@milan">>

----------------------------------------------------------------------------
(* Inputs.                                                                 *)

\* values of GEO_KEYWORDS and NATIONAL_MODES: unset (the defaults) or set
GeoKeywordLists == {DEFAULT_GEO_KEYWORDS, << <<"R", "O", "M", "A">> >>}

NationalModeLists == {DEFAULT_NATIONAL_MODE_KEYWORDS, << <<"S", "C", "I", "O", "P", "E", "R", "O">> >>}

\* values of OUTPUT_PATH: unset (DEFAULT_OUTPUT_PATH) or a bare file name
OutputPaths == {<<"d", "o", "c", "s", "/", "m", "i", "l", "a", "n", "-", "s", "t", "r", "i", "k", "e", "s", ".", "i", "c", "s">>, <<"m", "i", "l", "a", "n", ".", "i", "c", "s">>}

BlobFragments ==
    { <<"S", "c", "i", "o", "p", "e", "r", "o", " ">>, <<"n", "a", "z", "i", "o", "n", "a", "l", "e", " ">>, <<"N", "A", "Z", "I", "O", "N", "A", "L", "E", " ">>, <<"r", "e", "g", "i", "o", "n", "a", "l", "e", " ">>,
      <<"p", "r", "o", "v", "i", "n", "c", "i", "a", "l", "e", " ">>, <<"l", "o", "c", "a", "l", "e", " ">>, <<"M", "i", "l", "a", "n", "o", " ">>, <<"t", "r", "e", "n", "i", " ">>, <<"A", "u", "t", "o", "b", "u", "s", " ">>,
      <<"a", "e", "r", "e", "o", " ">>, <<"t", "a", "x", "i", " ">>, <<"R", "o", "m", "a", " ">> }

Blobs == {Concat(fs) : fs \in SeqsUpTo(BlobFragments, MaxBlobFrags)} \cup {None}

TextFragments ==
    { <<"0", "5", "/", "0", "3", "/", "2", "0", "2", "4">>, <<"2", "0", "2", "4", "-", "0", "3", "-", "0", "5">>, <<"0", "7", "/", "0", "3", "/", "2", "0", "2", "4">>, <<"3", "1", "/", "0", "2", "/", "2", "0", "2", "4">>,
      <<"3", "1", "/", "1", "2", "/", "9", "9", "9", "9">>, <<"1", "/", "1", "/", "2", "0">>, <<"1", "9", "9", "9", "-", "1", "2", "-">>, <<" ", "e", " ">> }

Texts == {Concat(fs) : fs \in SeqsUpTo(TextFragments, MaxTextFrags)} \cup {None}

UidStrings == SeqsUpTo({"a", "|"}, MaxUidLen)

\* time.struct_time absent
NoTime == <<>>

\* feed entries: title, summary, description, link (None when the attribute
\* is absent), published_parsed, updated_parsed (<<year, month, day>>)
EntryPool ==
    { [title |-> <<"S", "c", "i", "o", "p", "e", "r", "o", " ", "T", "r", "e", "n", "i", "t", "a", "l", "i", "a", " ", "0", "5", "/", "0", "3", "/", "2", "0", "2", "4", " ", "M", "i", "l", "a", "n", "o">>, summary |-> None,
       description |-> None, link |-> <<"h", "t", "t", "p", ":", "/", "/", "x", "/", "1">>,
       published_parsed |-> NoTime, updated_parsed |-> NoTime],
      [title |-> <<"S", "c", "i", "o", "p", "e", "r", "o", " ", "n", "a", "z", "i", "o", "n", "a", "l", "e", " ", "t", "r", "e", "n", "i">>, summary |-> <<"T", "r", "e", "n", "i", "t", "a", "l", "i", "a">>,
       description |-> None, link |-> None,
       published_parsed |-> <<2024, 3, 7>>, updated_parsed |-> <<2024, 3, 8>>],
      [title |-> <<"S", "c", "i", "o", "p", "e", "r", "o", " ", "l", "o", "c", "a", "l", "e", " ", "a", "u", "t", "o", "b", "u", "s", " ", "a", " ", "R", "o", "m", "a">>, summary |-> None,
       description |-> None, link |-> <<"h", "t", "t", "p", ":", "/", "/", "x", "/", "3">>,
       published_parsed |-> <<2024, 3, 8>>, updated_parsed |-> NoTime],
      [title |-> <<"M", "i", "l", "a", "n", "o", " ", "b", "u", "s">>, summary |-> None,
       description |-> None, link |-> None,
       published_parsed |-> NoTime, updated_parsed |-> NoTime],
      [title |-> <<"M", "i", "l", "a", "n", "o", " ", "3", "1", "/", "1", "2", "/", "9", "9", "9", "9">>, summary |-> None,
       description |-> None, link |-> <<"h", "t", "t", "p", ":", "/", "/", "x", "/", "5">>,
       published_parsed |-> <<2024, 3, 1>>, updated_parsed |-> NoTime],
      [title |-> <<"L", "i", "n", "a", "t", "e">>, summary |-> <<>>,
       description |-> <<"a", "e", "r", "e", "o", " ", "3", "1", "/", "0", "2", "/", "2", "0", "2", "4">>, link |-> <<"h", "t", "t", "p", ":", "/", "/", "x", "/", "6">>,
       published_parsed |-> NoTime, updated_parsed |-> <<2024, 3, 9>>] }

\* the documents the feed URL can serve, as the entries they hold
Documents == SeqsUpTo(EntryPool, MaxEntries)

\* feedparser.parse(doc): all the entries, or with bozo set any leading part
\* of them
ParseResults(doc) ==
    {[bozo |-> FALSE, entries |-> doc]}
        \cup {[bozo |-> TRUE, entries |-> SubSeq(doc, 1, n)] : n \in 0..Len(doc)}

----------------------------------------------------------------------------
(* The state before anything runs.                                         *)

CfgDefault ==
    /\ geo_kw = DEFAULT_GEO_KEYWORDS
    /\ nat_mode_kw = DEFAULT_NATIONAL_MODE_KEYWORDS
    /\ include_national = TRUE
    /\ out_path = <<"d", "o", "c", "s", "/", "m", "i", "l", "a", "n", "-", "s", "t", "r", "i", "k", "e", "s", ".", "i", "c", "s">>

MainIdle ==
    /\ pc = "idle"
    /\ raw = <<>>
    /\ feed = [bozo |-> FALSE, entries |-> <<>>]
    /\ parses = <<>>
    /\ idx = 0
    /\ cal = <<>>
    /\ kept = 0
    /\ out_file = [written |-> FALSE, events |-> <<>>]
    /\ error = "none"

ClsIdle ==
    /\ cpc = "idle"
    /\ blob = <<>>
    /\ included = "unset"
    /\ mode = "unset"
    /\ scope = "unset"

DateIdle ==
    /\ dpc = "idle"
    /\ text = <<>>
    /\ dates = <<>>
    /\ span = [kind |-> "unset"]

UidIdle ==
    /\ upc = "idle"
    /\ link1 = <<>> /\ title1 = <<>>
    /\ link2 = <<>> /\ title2 = <<>>
    /\ uid1 = <<>> /\ uid2 = <<>>

----------------------------------------------------------------------------
(* Calls of should_include, detect_mode and detect_scope on one blob.      *)

InitClassify ==
    /\ geo_kw \in GeoKeywordLists
    /\ nat_mode_kw \in NationalModeLists
    /\ include_national \in BOOLEAN
    /\ out_path = <<"d", "o", "c", "s", "/", "m", "i", "l", "a", "n", "-", "s", "t", "r", "i", "k", "e", "s", ".", "i", "c", "s">>
    /\ cpc = "start"
    /\ blob \in Blobs
    /\ included = "unset"
    /\ mode = "unset"
    /\ scope = "unset"
    /\ MainIdle /\ DateIdle /\ UidIdle

\* should_include is given a str
CallShouldInclude ==
    /\ cpc = "start"
    /\ blob # None
    /\ included' = IF should_include(blob, geo_kw, include_national, nat_mode_kw)
                   THEN "True" ELSE "False"
    /\ cpc' = "classify"
    /\ UNCHANGED <<blob, mode, scope, cfgVars, mainVars, dateVars, uidVars>>

CallDetectMode ==
    /\ \/ cpc = "classify"
       \/ cpc = "start" /\ blob = None
    /\ mode' = detect_mode(blob)
    /\ cpc' = "mode"
    /\ UNCHANGED <<blob, included, scope, cfgVars, mainVars, dateVars, uidVars>>

CallDetectScope ==
    /\ cpc = "mode"
    /\ scope' = detect_scope(blob)
    /\ cpc' = "done"
    /\ UNCHANGED <<blob, included, mode, cfgVars, mainVars, dateVars, uidVars>>

NextClassify == CallShouldInclude \/ CallDetectMode \/ CallDetectScope

SpecClassify == InitClassify /\ [][NextClassify]_vars

----------------------------------------------------------------------------
(* A call of extract_dates, then of choose_event_span on its result.       *)

InitDates ==
    /\ CfgDefault
    /\ dpc = "start"
    /\ text \in Texts
    /\ dates = <<>>
    /\ span = [kind |-> "unset"]
    /\ MainIdle /\ ClsIdle /\ UidIdle

CallExtractDates ==
    /\ dpc = "start"
    /\ dates' = extract_dates(text)
    /\ dpc' = "extracted"
    /\ UNCHANGED <<text, span, cfgVars, mainVars, clsVars, uidVars>>

CallChooseEventSpan ==
    /\ dpc = "extracted"
    /\ span' = choose_event_span(dates)
    /\ dpc' = "spanned"
    /\ UNCHANGED <<text, dates, cfgVars, mainVars, clsVars, uidVars>>

NextDates == CallExtractDates \/ CallChooseEventSpan

SpecDates == InitDates /\ [][NextDates]_vars

----------------------------------------------------------------------------
(* Two calls of make_uid.                                                  *)

InitUid ==
    /\ CfgDefault
    /\ upc = "start"
    /\ link1 \in UidStrings /\ title1 \in UidStrings
    /\ link2 \in UidStrings /\ title2 \in UidStrings
    /\ uid1 = <<>> /\ uid2 = <<>>
    /\ MainIdle /\ ClsIdle /\ DateIdle

CallMakeUidFirst ==
    /\ upc = "start"
    /\ uid1' = make_uid(link1, title1)
    /\ upc' = "one"
    /\ UNCHANGED <<link1, title1, link2, title2, uid2,
                   cfgVars, mainVars, clsVars, dateVars>>

CallMakeUidSecond ==
    /\ upc = "one"
    /\ uid2' = make_uid(link2, title2)
    /\ upc' = "two"
    /\ UNCHANGED <<link1, title1, link2, title2, uid1,
                   cfgVars, mainVars, clsVars, dateVars>>

NextUid == CallMakeUidFirst \/ CallMakeUidSecond

SpecUid == InitUid /\ [][NextUid]_vars

----------------------------------------------------------------------------
(* main().                                                                 *)

\* os.path.dirname(p)
dirname(p) ==
    LET slashes == {i \in 1..Len(p) : p[i] = "/"}
    IN  IF slashes = {} THEN <<>>
        ELSE SubSeq(p, 1, (CHOOSE i \in slashes : \A j \in slashes : j <= i) - 1)

\* a or b, on two str-or-None values
Or(a, b) == IF OrEmpty(a) # <<>> THEN a ELSE b

\* f"{title}\n{summary}\n{link}" of an entry
BlobOf(e) ==
    OrEmpty(e.title) \o <<"\n">> \o OrEmpty(Or(e.summary, e.description))
        \o <<"\n">> \o OrEmpty(e.link)

\* dates as main passes it to choose_event_span, for an entry and its blob
DatesOf(e, b) ==
    LET pp == IF e.published_parsed # NoTime THEN e.published_parsed
              ELSE e.updated_parsed
        OrTimestamp(found) ==
            IF found # <<>> THEN found
            ELSE IF pp # NoTime THEN <<pp>>
            ELSE <<>>
    IN  Bind(extract_dates(b), OrTimestamp)

\* the Event built from an entry, its blob and its span
EventOf(e, b, sp) ==
    [uid     |-> make_uid(OrEmpty(e.link), OrEmpty(e.title)),
     dtstart |-> sp.start,
     dtend   |-> sp.end,
     mode    |-> detect_mode(b),
     scope   |-> detect_scope(b),
     url     |-> OrEmpty(e.link)]

Init ==
    /\ geo_kw = DEFAULT_GEO_KEYWORDS
    /\ nat_mode_kw \in NationalModeLists
    /\ include_national \in BOOLEAN
    /\ out_path \in OutputPaths
    /\ pc = "fetch"
    /\ raw = <<>>
    /\ feed = [bozo |-> FALSE, entries |-> <<>>]
    /\ parses = <<>>
    /\ idx = 0
    /\ cal = <<>>
    /\ kept = 0
    /\ out_file = [written |-> FALSE, events |-> <<>>]
    /\ error = "none"
    /\ ClsIdle /\ DateIdle /\ UidIdle

\* raw = urllib.request.urlopen(req, timeout=30).read()
Fetch ==
    /\ pc = "fetch"
    /\ \E doc \in Documents : raw' = doc
    /\ pc' = "parse"
    /\ UNCHANGED <<feed, parses, idx, cal, kept, out_file, error,
                   cfgVars, clsVars, dateVars, uidVars>>

\* urlopen or read raises
FetchFails ==
    /\ pc = "fetch"
    /\ pc' = "failed"
    /\ error' = "URLError"
    /\ UNCHANGED <<raw, feed, parses, idx, cal, kept, out_file,
                   cfgVars, clsVars, dateVars, uidVars>>

\* feed = feedparser.parse(raw)
Parse ==
    /\ pc = "parse"
    /\ \E r \in ParseResults(raw) :
          /\ feed' = r
          /\ parses' = Append(parses, r)
    /\ pc' = "fallback"
    /\ UNCHANGED <<raw, idx, cal, kept, out_file, error,
                   cfgVars, clsVars, dateVars, uidVars>>

\* if bozo and not entries: decode as UTF-8 and parse again
Fallback ==
    /\ pc = "fallback"
    /\ IF feed.bozo /\ feed.entries = <<>>
       THEN \E r \in ParseResults(raw) :
               /\ feed' = r
               /\ parses' = Append(parses, r)
       ELSE UNCHANGED <<feed, parses>>
    /\ pc' = "check"
    /\ UNCHANGED <<raw, idx, cal, kept, out_file, error,
                   cfgVars, clsVars, dateVars, uidVars>>

\* if bozo and not entries: raise RuntimeError; else cal = Calendar(), kept = 0
Check ==
    /\ pc = "check"
    /\ IF feed.bozo /\ feed.entries = <<>>
       THEN /\ pc' = "failed"
            /\ error' = "RuntimeError"
            /\ UNCHANGED <<idx, cal, kept>>
       ELSE /\ pc' = "loop"
            /\ idx' = 1
            /\ cal' = <<>>
            /\ kept' = 0
            /\ UNCHANGED error
    /\ UNCHANGED <<raw, feed, parses, out_file,
                   cfgVars, clsVars, dateVars, uidVars>>

\* one turn of `for entry in feed.entries`
ProcessEntry ==
    /\ pc = "loop"
    /\ idx <= Len(feed.entries)
    /\ \E e \in {feed.entries[idx]} :
       \E b \in {BlobOf(e)} :
       \E sp \in {IF should_include(b, geo_kw, include_national, nat_mode_kw)
                   THEN choose_event_span(DatesOf(e, b))
                   ELSE [kind |-> "excluded"]} :
           IF sp.kind = "excluded"
           THEN /\ idx' = idx + 1
                /\ UNCHANGED <<pc, cal, kept, error>>
           ELSE IF sp.kind = "OverflowError"
           THEN /\ pc' = "failed"
                /\ error' = "OverflowError"
                /\ UNCHANGED <<idx, cal, kept>>
           ELSE IF sp.kind = "None"
           THEN /\ idx' = idx + 1
                /\ UNCHANGED <<pc, cal, kept, error>>
           ELSE /\ cal' = Append(cal, EventOf(e, b, sp))
                /\ kept' = kept + 1
                /\ idx' = idx + 1
                /\ UNCHANGED <<pc, error>>
    /\ UNCHANGED <<raw, feed, parses, out_file,
                   cfgVars, clsVars, dateVars, uidVars>>

\* os.makedirs(os.path.dirname(out_path), exist_ok=True), which raises
\* FileNotFoundError for the empty path; then the file is written
WriteOutput ==
    /\ pc = "loop"
    /\ idx > Len(feed.entries)
    /\ IF dirname(out_path) = <<>>
       THEN /\ pc' = "failed"
            /\ error' = "FileNotFoundError"
            /\ UNCHANGED out_file
       ELSE /\ pc' = "done"
            /\ out_file' = [written |-> TRUE, events |-> cal]
            /\ UNCHANGED error
    /\ UNCHANGED <<raw, feed, parses, idx, cal, kept,
                   cfgVars, clsVars, dateVars, uidVars>>

Next ==
    \/ Fetch
    \/ FetchFails
    \/ Parse
    \/ Fallback
    \/ Check
    \/ ProcessEntry
    \/ WriteOutput

Spec == Init /\ [][Next]_vars

----------------------------------------------------------------------------
(* The properties.  Their vocabulary is defined here, apart from the       *)
(* operators above that model the code.                                    *)

\* sub occurs in s, letter case apart
ContainsCI(sub, s) ==
    \E i \in 0..(Len(s) - Len(sub)) :
        \A j \in 1..Len(sub) : LowerChar(s[i + j]) = LowerChar(sub[j])

\* some keyword of the list occurs in s, letter case apart
SomeKeywordCI(keywords, s) ==
    \E k \in 1..Len(keywords) : ContainsCI(keywords[k], s)

\* the least element of a non-empty set of numbers
Least(S) == CHOOSE i \in S : \A j \in S : i <= j

ScopeLiterals == <<NAZIONALE, REGIONALE, PROVINC, LOCALE>>

ScopeLabels == <<"National", "Regional", "Province", "Local">>

ModeWordLists == <<LOCAL_TRANSIT_WORDS, RAIL_WORDS, AIR_WORDS, ROAD_WORDS>>

ModeLabels ==
    <<"Local public transport strike", "Rail strike",
      "Air transport strike", "Road transport strike">>

\* the categories, by priority, with a keyword in the text
ScopeHits(s) == {i \in 1..4 : ContainsCI(ScopeLiterals[i], s)}

ModeHits(s) == {i \in 1..4 : SomeKeywordCI(ModeWordLists[i], s)}

\* C1: should_include returns true exactly when the blob contains a
\* geographic keyword (letter case apart), or include_national is set and
\* the lower-cased blob contains "nazionale" and the blob contains a
\* national-mode keyword (letter case apart).
C1_ShouldIncludeIff ==
    included # "unset" =>
        ((included = "True") <=>
            \/ SomeKeywordCI(geo_kw, blob)
            \/ /\ include_national
               /\ ContainsCI(NAZIONALE, blob)
               /\ SomeKeywordCI(nat_mode_kw, blob))

\* a blob in capitals included by the national rule alone
C1_Witness ==
    /\ included = "True"
    /\ include_national
    /\ ~SomeKeywordCI(geo_kw, blob)
    /\ Contains(<<"N", "A", "Z", "I", "O", "N", "A", "L", "E">>, blob)

\* C5: detect_scope and detect_mode return the label of the first category,
\* by priority, that has a keyword in the text, and Unspecified / "Transport
\* strike" when no category has one (the absent text included).
C5_FirstCategoryWins ==
    cpc = "done" =>
        LET s  == OrEmpty(blob)
            sh == ScopeHits(s)
            mh == ModeHits(s)
        IN  /\ scope = IF sh = {} THEN "Unspecified" ELSE ScopeLabels[Least(sh)]
            /\ mode = IF mh = {} THEN "Transport strike" ELSE ModeLabels[Least(mh)]

\* a text with keywords of two modes, rail standing first in the text
C5_Witness ==
    /\ cpc = "done"
    /\ blob # None
    /\ ModeHits(blob) = {1, 2}
    /\ mode = "Local public transport strike"

\* C9 as stated: detect_mode reports a mode exactly for the texts that match
\* the configured national-mode keyword list.
C9_ModeFollowsConfiguredKeywords ==
    (cpc = "done" /\ blob # None) =>
        ((mode # "Transport strike") <=> matches_any(blob, nat_mode_kw))

\* C9 amended: detect_mode reports a mode exactly for the texts that contain
\* one of its own fixed keywords, which are the default national-mode
\* keywords, whatever national-mode keyword list is configured.
C9_ModeFollowsFixedKeywords ==
    cpc = "done" =>
        ((mode # "Transport strike") <=>
            SomeKeywordCI(DEFAULT_NATIONAL_MODE_KEYWORDS, OrEmpty(blob)))

\* an overridden list that lets the blob in, and leaves its mode generic
C9_Witness ==
    /\ cpc = "done"
    /\ nat_mode_kw # DEFAULT_NATIONAL_MODE_KEYWORDS
    /\ included = "True"
    /\ ~SomeKeywordCI(geo_kw, blob)
    /\ mode = "Transport strike"

\* C10: a blob that should_include accepts without a geographic keyword has
\* the scope National and, under the default national-mode keywords, a mode
\* other than "Transport strike".
C10_NationalInclusionAgrees ==
    (cpc = "done" /\ included = "True" /\ ~SomeKeywordCI(geo_kw, blob)) =>
        /\ scope = "National"
        /\ nat_mode_kw = DEFAULT_NATIONAL_MODE_KEYWORDS => mode # "Transport strike"

C10_Witness ==
    /\ cpc = "done"
    /\ included = "True"
    /\ ~SomeKeywordCI(geo_kw, blob)
    /\ nat_mode_kw = DEFAULT_NATIONAL_MODE_KEYWORDS
    /\ mode = "Rail strike"

----------------------------------------------------------------------------

DMY == <<"0", "5", "/", "0", "3", "/", "2", "0", "2", "4">>

YMD == <<"2", "0", "2", "4", "-", "0", "3", "-", "0", "5">>

March5 == <<2024, 3, 5>>

Has(ds, d) == \E k \in 1..Len(ds) : ds[k] = d

\* an occurrence of sub in s at the start of s or right after a character
\* that is neither a digit nor a separator
StandsClear(sub, s) ==
    \E i \in 0..(Len(s) - Len(sub)) :
        /\ SubSeq(s, i + 1, i + Len(sub)) = sub
        /\ i = 0 \/ s[i] \notin (DigitSet \cup SepSet)

\* C3 as stated: a text that contains "05/03/2024" or "2024-03-05" gives the
\* date 2024-03-05, whatever surrounds the substring.
C3_DateFoundWhateverSurrounds ==
    (dpc # "start" /\ text # None /\ (Contains(DMY, text) \/ Contains(YMD, text)))
        => Has(dates, March5)

\* C3 amended: a text in which "05/03/2024" or "2024-03-05" stands at the
\* start or right after a character that is neither a digit nor "/" nor "-"
\* gives the date 2024-03-05, whatever follows the substring.
C3_DateFoundWhenStandingClear ==
    (dpc # "start" /\ text # None /\ (StandsClear(DMY, text) \/ StandsClear(YMD, text)))
        => Has(dates, March5)

\* "2024-03-05" standing clear with a digit right after it
C3_Witness ==
    /\ dpc # "start"
    /\ text # None
    /\ Len(text) > Len(YMD)
    /\ SubSeq(text, 1, Len(YMD)) = YMD
    /\ text[Len(YMD) + 1] \in DigitSet
    /\ Has(dates, March5)

MonthLengths == <<31, 28, 31, 30, 31, 30, 31, 31, 30, 31, 30, 31>>

\* a date of the proleptic Gregorian calendar, years 1 to 9999
RealDate(d) ==
    /\ d[1] \in 1..9999
    /\ d[2] \in 1..12
    /\ d[3] >= 1
    /\ \/ d[3] <= MonthLengths[d[2]]
       \/ d[2] = 2 /\ d[3] = 29
             /\ d[1] % 4 = 0 /\ (d[1] % 100 # 0 \/ d[1] % 400 = 0)

\* the days from 0001-01-01 to d, that day included
DayNumber(d) ==
    LET y == d[1] - 1
        leap == d[1] % 4 = 0 /\ (d[1] % 100 # 0 \/ d[1] % 400 = 0)
        RECURSIVE Before(_)
        Before(mo) ==
            IF mo = 1 THEN 0
            ELSE Before(mo - 1) + MonthLengths[mo - 1]
                    + (IF mo - 1 = 2 /\ leap THEN 1 ELSE 0)
    IN  365 * y + (y \div 4) - (y \div 100) + (y \div 400) + Before(d[2]) + d[3]

\* C8: extract_dates returns real calendar dates only, in strictly ascending
\* order (so without duplicates); a match that is no real date adds nothing.
C8_DatesRealDistinctAscending ==
    dpc # "start" =>
        /\ \A k \in 1..Len(dates) : RealDate(dates[k])
        /\ \A k \in 1..(Len(dates) - 1) :
              DayNumber(dates[k]) < DayNumber(dates[k + 1])
        /\ ~Has(dates, <<2024, 2, 31>>)

\* the matches held an unreal date, a repeated one or ones out of order
C8_Witness ==
    /\ dpc # "start"
    /\ text # None
    /\ Contains(<<"3", "1", "/", "0", "2", "/", "2", "0", "2", "4">>, text)
    /\ dates # <<>>
    /\ Found(text) # dates

\* C2: choose_event_span returns None for no dates, and for the dates of
\* extract_dates the pair of the earliest date and the day after the latest
\* one, the second after the first.
C2_SpanIsEarliestToDayAfterLatest ==
    dpc = "spanned" =>
        IF dates = <<>> THEN span.kind = "None"
        ELSE /\ span.kind = "span"
             /\ \A k \in 1..Len(dates) :
                   DayNumber(span.start) <= DayNumber(dates[k])
             /\ Has(dates, span.start)
             /\ \E k \in 1..Len(dates) :
                   /\ DayNumber(span.end) = DayNumber(dates[k]) + 1
                   /\ \A j \in 1..Len(dates) :
                         DayNumber(dates[j]) <= DayNumber(dates[k])
             /\ DayNumber(span.end) > DayNumber(span.start)

\* C4: two different (link, title) pairs get different identifiers, the
\* hash being collision-free.
C4_DifferentPairsDifferentUids ==
    (upc = "two" /\ <<link1, title1>> # <<link2, title2>>) => uid1 # uid2

----------------------------------------------------------------------------

\* the day after d in a calendar without a last day
DayAfter(d) ==
    IF RealDate(<<d[1], d[2], d[3] + 1>>) THEN <<d[1], d[2], d[3] + 1>>
    ELSE IF d[2] < 12 THEN <<d[1], d[2] + 1, 1>>
    ELSE <<d[1] + 1, 1, 1>>

\* the events C6 describes for a list of entries
RECURSIVE EventsClaimed(_)
EventsClaimed(es) ==
    IF es = <<>> THEN <<>>
    ELSE LET e  == Head(es)
             b  == BlobOf(e)
             ds == extract_dates(b)
             pp == IF e.published_parsed # NoTime THEN e.published_parsed
                   ELSE e.updated_parsed
             cs == IF ds # <<>> THEN ds ELSE IF pp # NoTime THEN <<pp>> ELSE <<>>
             sp == [start |-> cs[1], end |-> DayAfter(cs[Len(cs)])]
             incl == \/ SomeKeywordCI(geo_kw, b)
                     \/ /\ include_national
                        /\ ContainsCI(NAZIONALE, b)
                        /\ SomeKeywordCI(nat_mode_kw, b)
         IN  (IF incl /\ cs # <<>> THEN <<EventOf(e, b, sp)>> ELSE <<>>)
                 \o EventsClaimed(Tail(es))

RunEnded == pc \in {"done", "failed"}

\* C6: the events added are, in feed order, those of the entries that pass
\* should_include and have a span (from the dates of the blob, else from the
\* published, else updated, timestamp); kept is their number.
C6_EventsAreTheIncludedEntries ==
    (RunEnded /\ error \notin {"URLError", "RuntimeError"}) =>
        /\ cal = EventsClaimed(feed.entries)
        /\ kept = Len(cal)
        /\ pc = "done" => out_file.events = cal

\* C7: at most two parses, the second only after a first that is bozo with
\* no entries; a final result that is bozo with no entries fails the run and
\* leaves the output file alone; one that is bozo with entries does not fail
\* the run, which writes the output.
C7_ParseRecovery ==
    /\ Len(parses) <= 2
    /\ Len(parses) = 2 => parses[1].bozo /\ parses[1].entries = <<>>
    /\ (RunEnded /\ parses # <<>> /\ feed.bozo /\ feed.entries = <<>>)
          => pc = "failed" /\ error = "RuntimeError" /\ ~out_file.written
    /\ (RunEnded /\ parses # <<>> /\ feed.bozo /\ feed.entries # <<>>)
          => pc = "done" /\ out_file.written

====
